---- MODULE Spec2Model ----
(***************************************************************************)
(* Model of sky/spot/recovery_strategy.py: StrategyExecutor (launch,       *)
(* terminate_cluster, _launch) and its two recovery strategies,            *)
(* FailoverStrategyExecutor and CrossRegion.                               *)
(*                                                                         *)
(* One executor instance manages one cluster on one thread of control.     *)
(* The collaborators (sky.launch, backend.teardown, the cluster registry,  *)
(* the job runtime, the signal handler) are the environment: every call    *)
(* draws its outcome nondeterministically.  pc is the position of the      *)
(* executor's thread inside launch()/recover()/_launch()/terminate.        *)
(***************************************************************************)
EXTENDS Integers, FiniteSets, Sequences, TLC

(* ---------------------------- bounds ----------------------------------- *)
\* cap on _launch's retry_cnt (unbounded in the code when sky.launch keeps
\* succeeding or max_retry is None)
MaxAttempts == 4
\* cap on the wall clock: the number of successful sky.launch calls
MaxClock == 2
\* cap on the rounds of recover()'s outer while-True loop
MaxRounds == 2
\* spot_utils.MAX_JOB_CHECKING_RETRY (its value is set outside this file)
MAX_JOB_CHECKING_RETRY == 2
\* cap on the number of resource specs a task handed to make() carries
MaxResources == 2

(* ------------------------ program constants ---------------------------- *)
\* StrategyExecutor.RETRY_INIT_GAP_SECONDS
RETRY_INIT_GAP_SECONDS == 60
\* growth factor of common_utils.Backoff
BACKOFF_MULTIPLIER == 2
\* _launch(self, max_retry=3, ...)
DEFAULT_MAX_RETRY == 3
\* recover(): self._launch(max_retry=3, raise_on_failure=False)
RECOVER_MAX_RETRY == 3
\* terminate_cluster(self, max_retry: int = 3)
TERMINATE_MAX_RETRY == 3

(* ------------------------ the placement universe ----------------------- *)
Regions == {"rA", "rB"}
Zones == {"a1", "a2", "b1"}
RegionOf == [z \in Zones |-> IF z = "b1" THEN "rB" ELSE "rA"]

\* handle.launched_resources of a registered cluster
Placements == {[region |-> RegionOf[z], zone |-> z] : z \in Zones}
\* get_handle_from_cluster_name(...) returning None
NoHandle == [region |-> "None", zone |-> "None"]

\* Optional[int]: None is <<>>, n is <<n>>
NoLimit == <<>>
Limit(n) == <<n>>

\* Optional[float] results
NullResult == [kind |-> "null", ts |-> 0]
Timestamp(t) == [kind |-> "ts", ts |-> t]
NoResult == [kind |-> "none", ts |-> 0]

JobStatuses == {"None", "INIT", "PENDING", "RUNNING"}

\* SPOT_STRATEGIES: the names registered by __init_subclass__
SPOT_STRATEGIES == {"FAILOVER", "CROSS_REGION"}
\* recovery-policy names a resource spec may declare ("None": none declared)
RecoveryNames == SPOT_STRATEGIES \cup {"None", "UNREGISTERED"}

VARIABLES
    \* the task handed to make()
    task_resources,     \* len(task.resources)
    spot_recovery,      \* resources.spot_recovery of the (first) resource spec
    \* configuration of the executor instance
    variant,            \* strategy class of the instance; "none": no instance
    retry_until_up,     \* self.retry_until_up
    cross_region_env,   \* os.environ.get('_CROSS_REGION') is not None
    \* executor fields
    blocked_regions,    \* self._blocked_regions
    blocked_zones,      \* self._blocked_zones
    \* cluster registry (global_user_state)
    handle,             \* handle registered under cluster_name, or NoHandle
    \* control state
    pc,                 \* position of the executor's thread ("idle": not in a call)
    op,                 \* public operation called last: "none"|"launch"|"recover"
    phase,              \* "UNMADE" | "UNSTARTED" | "RUNNING" | "FAILED"
    max_retry,          \* _launch argument
    raise_on_failure,   \* _launch argument
    retry_cnt,          \* _launch local
    backoff_calls,      \* current_backoff() calls on _launch's Backoff object
    job_checking_retry_cnt, \* _launch local
    status,             \* _launch local: last job status read
    retry_launch,       \* _launch local
    failed_calls,       \* failed sky.launch calls of the current _launch call
    launch_ret,         \* value _launch returned to its caller
    term_retry_cnt,     \* terminate_cluster local retry_cnt
    rounds,             \* iterations of recover()'s outer loop begun
    \* environment
    cancel_pending,     \* the signal handler would raise
    clock,              \* wall clock (ticks at each job submission)
    job_start,          \* start timestamp of the job on the current cluster
    \* results and observation
    outcome,            \* completion of the last public operation
    prior_start,        \* start timestamp of the run recover() was called for
    recover_handle,     \* recover() local: handle read at entry
    last_call,          \* last collaborator call and its result
    signal_at_check,    \* was the signal pending at the last signal check
    cancel_at_entry,    \* was the signal pending when _launch was entered
    launch_calls,       \* sky.launch calls of the current _launch invocation
    teardown_calls,     \* teardown calls of the current terminate_cluster call
    cleared,            \* blocklist cleared since recover() was entered
    null_reason,        \* why _launch returned None: "budget" | "poll" | "none"
    last_backoff,       \* gap_seconds of the last backoff sleep (0: none yet)
    unhealthy,          \* refresh reported not UP; no teardown, no provisioning since
    wait_cancel         \* the wait during which the signal became pending:
                        \* "backoff" | "poll" | "recover", else "none"

cfg == <<variant, retry_until_up, cross_region_env>>
task == <<task_resources, spot_recovery>>
blk == <<blocked_regions, blocked_zones>>
largs == <<max_retry, raise_on_failure>>
llocals == <<retry_cnt, backoff_calls, job_checking_retry_cnt, status, retry_launch,
             failed_calls>>
env == <<cancel_pending, clock, job_start>>
obs == <<signal_at_check, cancel_at_entry, launch_calls, teardown_calls, cleared>>
rec == <<prior_start, recover_handle, rounds>>
hist == <<last_backoff, wait_cancel, unhealthy>>

vars == <<task, cfg, blk, handle, pc, op, phase, largs, llocals, launch_ret,
          term_retry_cnt, env, outcome, rec, last_call, obs, null_reason,
          hist>>

(* ------------------------------- Init ---------------------------------- *)
\* Before make(): a task with some resource specs and a declared policy
\* name, no instance yet.  The fields are as __init__ will set them.
Init ==
    /\ task_resources \in 0..MaxResources
    /\ spot_recovery \in RecoveryNames
    /\ variant = "none"
    /\ retry_until_up \in BOOLEAN
    /\ cross_region_env \in BOOLEAN
    /\ blocked_regions = {}
    /\ blocked_zones = {}
    /\ handle = NoHandle
    /\ pc = "idle"
    /\ op = "none"
    /\ phase = "UNMADE"
    /\ max_retry = NoLimit
    /\ raise_on_failure = TRUE
    /\ retry_cnt = 0
    /\ backoff_calls = 0
    /\ job_checking_retry_cnt = 0
    /\ status = "None"
    /\ retry_launch = FALSE
    /\ failed_calls = 0
    /\ unhealthy = FALSE
    /\ launch_ret = NoResult
    /\ term_retry_cnt = 0
    /\ rounds = 0
    /\ cancel_pending = FALSE
    /\ clock = 0
    /\ job_start = 0
    /\ outcome = NoResult
    /\ prior_start = 0
    /\ recover_handle = NoHandle
    /\ last_call = "none"
    /\ signal_at_check = FALSE
    /\ cancel_at_entry = FALSE
    /\ launch_calls = 0
    /\ teardown_calls = 0
    /\ cleared = FALSE
    /\ null_reason = "none"
    /\ last_backoff = 0
    /\ wait_cancel = "none"


(* ------------------------------ helpers -------------------------------- *)
\* An exception leaves launch()/recover(): the operation is over and failed.
Raise(kind) ==
    /\ outcome' = [kind |-> kind, ts |-> 0]
    /\ pc' = "idle"
    /\ UNCHANGED op
    /\ phase' = "FAILED"

EnterLaunchKeepsBackoff(mr, rof) ==
    /\ max_retry' = mr
    /\ raise_on_failure' = rof
    /\ retry_cnt' = 0
    /\ UNCHANGED backoff_calls
    /\ job_checking_retry_cnt' = 0
    /\ status' = "None"
    /\ retry_launch' = FALSE
    /\ failed_calls' = 0
    /\ launch_ret' = NoResult
    /\ null_reason' = "none"
    /\ launch_calls' = 0
    /\ cancel_at_entry' = cancel_pending
    /\ pc' = "L_top"
\* Entry of _launch(max_retry, raise_on_failure): retry_cnt = 0 and a fresh
\* Backoff object.
EnterLaunch(mr, rof) ==
    /\ max_retry' = mr
    /\ raise_on_failure' = rof
    /\ retry_cnt' = 0
    /\ backoff_calls' = 0
    /\ job_checking_retry_cnt' = 0
    /\ status' = "None"
    /\ retry_launch' = FALSE
    /\ failed_calls' = 0
    /\ launch_ret' = NoResult
    /\ null_reason' = "none"
    /\ launch_calls' = 0
    /\ cancel_at_entry' = cancel_pending
    /\ pc' = "L_top"

\* launch(): max_retry=None under retry_until_up, else the default.
LaunchMaxRetryAlwaysBounded == Limit(DEFAULT_MAX_RETRY)
LaunchMaxRetry ==
    IF retry_until_up THEN NoLimit ELSE Limit(DEFAULT_MAX_RETRY)

\* common_utils.Backoff(RETRY_INIT_GAP_SECONDS).current_backoff(), called
\* when n calls were made on the object before: starts at the base interval
\* and grows multiplicatively.
CurrentBackoff(n) == RETRY_INIT_GAP_SECONDS * BACKOFF_MULTIPLIER ^ n

\* `gap_seconds = backoff.current_backoff()` on _launch's Backoff object
CallBackoff ==
    /\ backoff_calls' = backoff_calls + 1
    /\ last_backoff' = CurrentBackoff(backoff_calls)

\* `if retry_launch:` after the polling loop: back off, sleep, continue
RelaunchPcReturns == "L_return"
RelaunchPc == "L_sleep"

\* `continue` after time.sleep(gap_seconds): back to the top of while True.
AfterSleepPcSkipsCheck == "L_provision"
AfterSleepPc == "L_top"

\* `if max_retry is not None and retry_cnt >= max_retry`
RetryBudgetSpentLate ==
    /\ max_retry # NoLimit
    /\ retry_cnt > max_retry[1]
RetryBudgetSpent ==
    /\ max_retry # NoLimit
    /\ retry_cnt >= max_retry[1]

\* `if raise_on_failure: raise ResourcesUnavailableError ... else: return None`
ExhaustedRaisesNever == FALSE
ExhaustedRaises == raise_on_failure

\* the blocklist after a failed sky.launch whose message is / is not
\* 'Failed to provision all possible launchable resources'
RegionsAfterFailureKept(exhausted) == blocked_regions
RegionsAfterFailure(exhausted) ==
    IF exhausted THEN {} ELSE blocked_regions
ZonesAfterFailureBlocks(exhausted) ==
    IF exhausted THEN {}
    ELSE blocked_zones \cup (IF handle = NoHandle THEN {} ELSE {handle.zone})
ZonesAfterFailure(exhausted) ==
    IF exhausted THEN {} ELSE blocked_zones

\* Where a successful sky.launch can put the cluster: any placement the
\* blocklist passed to it allows, or the cluster already registered.
LaunchTargets ==
    {h \in Placements : h.zone \notin blocked_zones
                        /\ h.region \notin blocked_regions}
    \cup (IF handle = NoHandle THEN {} ELSE {handle})

\* the condition of the job-status polling loop
PollCondition ==
    /\ status = "None" \/ status \in {"INIT", "PENDING"}
    /\ job_checking_retry_cnt < MAX_JOB_CHECKING_RETRY

(* ------------------------------- make() -------------------------------- *)
\* `assert len(resources) == 1`
MakeResourcesOkAtLeastOne(n) == n >= 1
MakeResourcesOk(n) == n = 1

\* StrategyExecutor.make: the two assertions, the registry lookup
\* (a KeyError for an unregistered name), the spot_recovery field cleared
\* on the task, and __init__ of the registered class.
make ==
    /\ pc = "idle"
    /\ phase = "UNMADE"
    /\ IF ~MakeResourcesOk(task_resources) \/ spot_recovery = "None"
         THEN /\ Raise("AssertionError")
              /\ UNCHANGED <<variant, spot_recovery, blk>>
         ELSE IF spot_recovery \notin SPOT_STRATEGIES
                THEN /\ Raise("KeyError")
                     /\ spot_recovery' = "None"
                     /\ UNCHANGED <<variant, blk>>
                ELSE /\ variant' = spot_recovery
                     /\ spot_recovery' = "None"
                     /\ blocked_regions' = {}
                     /\ blocked_zones' = {}
                     /\ phase' = "UNSTARTED"
                     /\ UNCHANGED <<pc, op, outcome>>
    /\ UNCHANGED <<hist, task_resources, retry_until_up, cross_region_env, handle,
                   largs, llocals, launch_ret, term_retry_cnt, env, rec,
                   last_call, obs, null_reason>>

(* ------------------------------ launch() ------------------------------- *)
launch ==
    /\ pc = "idle"
    /\ phase = "UNSTARTED"
    /\ op' = "launch"
    /\ EnterLaunch(LaunchMaxRetry, TRUE)
    /\ UNCHANGED <<hist, task, cfg, blk, handle, phase, term_retry_cnt, env, outcome, rec,
                   last_call, signal_at_check, teardown_calls, cleared>>

(* ------------------------------ _launch -------------------------------- *)
\* top of `while True`: retry_cnt += 1; self.signal_handler()
SignalCheck ==
    /\ pc = "L_top"
    /\ retry_cnt < MaxAttempts
    /\ retry_cnt' = retry_cnt + 1
    /\ last_call' = "signal"
    /\ signal_at_check' = cancel_pending
    /\ IF cancel_pending
         THEN Raise("Cancelled")
         ELSE /\ pc' = "L_provision"
              /\ UNCHANGED <<op, phase, outcome>>
    /\ UNCHANGED <<hist, task, cfg, blk, handle, largs, backoff_calls, failed_calls,
                   job_checking_retry_cnt, status, retry_launch, launch_ret,
                   term_retry_cnt, env, rec, cancel_at_entry, launch_calls,
                   teardown_calls, cleared, null_reason>>

\* sky.launch(...) succeeds: the cluster is registered, the job submitted;
\* then the locals of the polling loop are initialised.
SkyLaunchOk ==
    /\ pc = "L_provision"
    /\ clock < MaxClock
    /\ \E h \in LaunchTargets : handle' = h
    /\ clock' = clock + 1
    /\ job_start' = clock + 1
    /\ launch_calls' = launch_calls + 1
    /\ last_call' = "launch_ok"
    /\ status' = "None"
    /\ retry_launch' = FALSE
    /\ job_checking_retry_cnt' = 0
    /\ pc' = "L_poll"
    /\ unhealthy' = FALSE
    /\ UNCHANGED <<last_backoff, wait_cancel, task, cfg, blk, op, phase, largs, retry_cnt, backoff_calls,
                   failed_calls,
                   launch_ret, term_retry_cnt, cancel_pending, outcome, rec,
                   signal_at_check, cancel_at_entry, teardown_calls, cleared,
                   null_reason>>

\* sky.launch(...) raises: clear the blocklist on the exhaustion message,
\* give up when the budget is spent, else back off and retry.
SkyLaunchFail ==
    /\ pc = "L_provision"
    /\ \E exhausted \in BOOLEAN, kept \in BOOLEAN :
        /\ handle' = IF kept THEN handle ELSE NoHandle
        /\ blocked_regions' = RegionsAfterFailure(exhausted)
        /\ blocked_zones' = ZonesAfterFailure(exhausted)
        /\ cleared' = (cleared \/ exhausted)
        /\ last_call' = IF exhausted THEN "launch_exhausted" ELSE "launch_fail"
    /\ launch_calls' = launch_calls + 1
    /\ failed_calls' = failed_calls + 1
    /\ unhealthy' = FALSE
    /\ IF RetryBudgetSpent
         THEN /\ IF ExhaustedRaises
                   THEN /\ Raise("ResourcesUnavailableError")
                        /\ UNCHANGED <<launch_ret, null_reason>>
                   ELSE /\ launch_ret' = NullResult
                        /\ null_reason' = "budget"
                        /\ pc' = "L_return"
                        /\ UNCHANGED <<op, phase, outcome>>
              /\ UNCHANGED <<backoff_calls, last_backoff>>
         ELSE /\ CallBackoff
              /\ pc' = "L_sleep"
              /\ UNCHANGED <<op, phase, outcome, launch_ret, null_reason>>
    /\ UNCHANGED <<wait_cancel, task, cfg, largs, retry_cnt, job_checking_retry_cnt, status,
                   retry_launch, term_retry_cnt, env, rec, signal_at_check,
                   cancel_at_entry, teardown_calls>>

\* time.sleep(gap_seconds); continue
BackoffSleep ==
    /\ pc = "L_sleep"
    /\ pc' = AfterSleepPc
    /\ UNCHANGED <<hist, task, cfg, blk, handle, op, phase, largs, llocals, launch_ret,
                   term_retry_cnt, env, outcome, rec, last_call, obs,
                   null_reason>>

\* one iteration of the polling loop up to the cluster-status refresh
PollRefresh ==
    /\ pc = "L_poll"
    /\ PollCondition
    /\ job_checking_retry_cnt' = job_checking_retry_cnt + 1
    /\ \E r \in {"UP", "NOT_UP", "ERROR"} :
        \/ /\ r = "UP"
           /\ last_call' = "refresh_up"
           /\ pc' = "L_status"
           /\ UNCHANGED <<handle, retry_launch, backoff_calls, last_backoff,
                          unhealthy>>
        \/ /\ r = "NOT_UP"
           /\ last_call' = "refresh_not_up"
           /\ unhealthy' = TRUE
           /\ handle' \in {handle, NoHandle}
           /\ retry_launch' = TRUE
           /\ CallBackoff
           /\ pc' = RelaunchPc
        \/ /\ r = "ERROR"
           /\ last_call' = "refresh_error"
           /\ retry_launch' = TRUE
           /\ CallBackoff
           /\ pc' = RelaunchPc
           /\ UNCHANGED <<handle, unhealthy>>
    /\ UNCHANGED <<wait_cancel, failed_calls, task, cfg, blk, op, phase, largs, retry_cnt, status, launch_ret,
                   term_retry_cnt, env, outcome, rec, obs, null_reason>>

\* the rest of the iteration: sleep, get_job_status, get_job_timestamp
GetJobStatus ==
    /\ pc = "L_status"
    /\ \E s \in JobStatuses \cup {"ERROR"}, ts_ok \in BOOLEAN :
        \/ /\ s = "ERROR"
           /\ last_call' = "status_error"
           /\ retry_launch' = TRUE
           /\ CallBackoff
           /\ pc' = RelaunchPc
           /\ UNCHANGED <<status, launch_ret>>
        \/ /\ s = "None"
           /\ last_call' = "status_none"
           /\ status' = s
           /\ pc' = "L_poll"
           /\ UNCHANGED <<retry_launch, backoff_calls, last_backoff,
                         launch_ret>>
        \/ /\ s \notin {"ERROR", "None"}
           /\ ts_ok
           /\ last_call' = "timestamp_ok"
           /\ status' = s
           /\ launch_ret' = Timestamp(job_start)
           /\ pc' = "L_return"
           /\ UNCHANGED <<retry_launch, backoff_calls, last_backoff>>
        \/ /\ s \notin {"ERROR", "None"}
           /\ ~ts_ok
           /\ last_call' = "timestamp_error"
           /\ status' = s
           /\ retry_launch' = TRUE
           /\ CallBackoff
           /\ pc' = RelaunchPc
           /\ UNCHANGED launch_ret
    /\ UNCHANGED <<wait_cancel, unhealthy, failed_calls, task, cfg, blk, handle, op, phase, largs, retry_cnt,
                   job_checking_retry_cnt, term_retry_cnt, env, outcome, rec,
                   obs, null_reason>>

PollExhaustedContinues ==
    /\ pc = "L_poll"
    /\ ~PollCondition
    /\ pc' = "L_top"
    /\ UNCHANGED <<hist, task, cfg, blk, handle, op, phase, largs, llocals,
                   launch_ret, null_reason, term_retry_cnt, env, outcome, rec,
                   last_call, obs>>
\* the polling loop ends by its condition: `return launch_time` (still None)
PollExhausted ==
    /\ pc = "L_poll"
    /\ ~PollCondition
    /\ launch_ret' = NullResult
    /\ null_reason' = "poll"
    /\ pc' = "L_return"
    /\ UNCHANGED <<hist, task, cfg, blk, handle, op, phase, largs, llocals,
                   term_retry_cnt, env, outcome, rec, last_call, obs>>

\* launch() returns what _launch returned
LaunchReturn ==
    /\ pc = "L_return"
    /\ op = "launch"
    /\ outcome' = launch_ret
    /\ pc' = "idle"
    /\ UNCHANGED op
    /\ phase' = IF launch_ret.kind = "ts" THEN "RUNNING" ELSE "FAILED"
    /\ UNCHANGED <<hist, task, cfg, blk, handle, largs, llocals, launch_ret,
                   term_retry_cnt, env, rec, last_call, obs, null_reason>>


(* ------------------------------ recover() ------------------------------ *)
\* `self._blocked_zones.add(launched_zone)` at the entry of recover()
ZonesAtRecoverEntryUnchanged == blocked_zones
ZonesAtRecoverEntry == blocked_zones \cup {handle.zone}

\* CrossRegion only: `if os.environ.get('_CROSS_REGION') is not None:
\*     self._blocked_regions.add(handle.launched_resources.region)`
RegionsAtRecoverEntryAlways ==
    IF variant = "CROSS_REGION"
      THEN blocked_regions \cup {handle.region}
      ELSE blocked_regions
RegionsAtRecoverEntry ==
    IF variant = "CROSS_REGION" /\ cross_region_env
      THEN blocked_regions \cup {handle.region}
      ELSE blocked_regions

\* after _launch returned None: `if handle is not None: ...add(...)`
ZonesOnNull ==
    IF handle # NoHandle THEN blocked_zones \cup {handle.zone}
                         ELSE blocked_zones
RegionsOnNullAnyVariant(v) ==
    IF handle # NoHandle THEN blocked_regions \cup {handle.region}
                         ELSE blocked_regions
RegionsOnNull(v) ==
    IF v = "CROSS_REGION" /\ handle # NoHandle
      THEN blocked_regions \cup {handle.region}
      ELSE blocked_regions

\* `if launched_time is None:`
RecoverSeesFailureNever == FALSE
RecoverSeesFailure == launch_ret.kind = "null"

\* terminate_cluster: `if handle is None: return`
TerminateNoopNever == FALSE
TerminateNoop == handle = NoHandle

\* terminate_cluster: `if retry_cnt >= max_retry: raise RuntimeError`
TerminateGiveUpLate(cnt) == cnt > TERMINATE_MAX_RETRY
TerminateGiveUp(cnt) == cnt >= TERMINATE_MAX_RETRY

\* Step 1 of recover() (both variants): cancel the jobs (a CommandError is
\* ignored), block the zone the cluster ran in, and for CrossRegion under
\* _CROSS_REGION its region.  recover() is called for a registered cluster.
recover ==
    /\ pc = "idle"
    /\ phase = "RUNNING"
    /\ handle # NoHandle
    /\ op' = "recover"
    /\ recover_handle' = handle
    /\ \E cancelled \in BOOLEAN :
         last_call' = IF cancelled THEN "cancel_jobs_ok"
                                   ELSE "cancel_jobs_error"
    /\ blocked_zones' = ZonesAtRecoverEntry
    /\ blocked_regions' = RegionsAtRecoverEntry
    /\ prior_start' = outcome.ts
    /\ cleared' = FALSE
    /\ rounds' = 0
    /\ pc' = "R_loop"
    /\ UNCHANGED <<hist, task, cfg, handle, phase, largs, llocals, launch_ret,
                   term_retry_cnt, env, outcome, signal_at_check,
                   cancel_at_entry, launch_calls, teardown_calls, null_reason>>

\* Step 2: self.terminate_cluster() up to its loop; with no handle it returns
\* and Step 3, self._launch(max_retry=3, raise_on_failure=False), begins.
terminate_cluster ==
    /\ pc = "R_loop"
    /\ rounds < MaxRounds
    /\ rounds' = rounds + 1
    /\ term_retry_cnt' = 0
    /\ teardown_calls' = 0
    /\ last_call' = "get_handle"
    /\ IF TerminateNoop
         THEN EnterLaunch(Limit(RECOVER_MAX_RETRY), FALSE)
         ELSE /\ pc' = "T_loop"
              /\ UNCHANGED <<largs, llocals, launch_ret, null_reason,
                             launch_calls, cancel_at_entry>>
    /\ UNCHANGED <<hist, task, cfg, blk, handle, op, phase, env, outcome, prior_start,
                   recover_handle, signal_at_check, cleared>>

\* one self.backend.teardown(handle, terminate=True) of terminate_cluster's
\* loop; a successful teardown removes the cluster from the registry.
Teardown ==
    /\ pc = "T_loop"
    /\ teardown_calls' = teardown_calls + 1
    /\ \E success \in BOOLEAN :
        \/ /\ success
           /\ last_call' = "teardown_ok"
           /\ handle' = NoHandle
           /\ EnterLaunch(Limit(RECOVER_MAX_RETRY), FALSE)
           /\ UNCHANGED <<term_retry_cnt, op, phase, outcome>>
        \/ /\ ~success
           /\ last_call' = "teardown_fail"
           /\ term_retry_cnt' = term_retry_cnt + 1
           /\ IF TerminateGiveUp(term_retry_cnt + 1)
                THEN Raise("RuntimeError")
                ELSE UNCHANGED <<pc, op, phase, outcome>>
           /\ UNCHANGED <<handle, largs, llocals, launch_ret, null_reason,
                          launch_calls, cancel_at_entry>>
    /\ unhealthy' = FALSE
    /\ UNCHANGED <<last_backoff, wait_cancel, task, cfg, blk, env, rec,
                   signal_at_check, cleared>>

\* recover() after Step 3: on None block the cluster's zone (CrossRegion:
\* and region), then sleep and loop under retry_until_up, else raise;
\* otherwise return the timestamp.
RecoverAfterLaunch ==
    /\ pc = "L_return"
    /\ op = "recover"
    /\ IF RecoverSeesFailure
         THEN /\ blocked_zones' = ZonesOnNull
              /\ blocked_regions' = RegionsOnNull(variant)
              /\ IF retry_until_up
                   THEN /\ pc' = "R_sleep"
                        /\ UNCHANGED <<op, phase, outcome>>
                   ELSE Raise("ResourcesUnavailableError")
         ELSE /\ outcome' = launch_ret
              /\ pc' = "idle"
              /\ UNCHANGED op
              /\ phase' = IF launch_ret.kind = "ts" THEN "RUNNING" ELSE "FAILED"
              /\ UNCHANGED blk
    /\ UNCHANGED <<hist, task, cfg, handle, largs, llocals, launch_ret, term_retry_cnt,
                   env, rec, last_call, obs, null_reason>>

\* time.sleep(self.RETRY_INIT_GAP_SECONDS); continue
RecoverSleep ==
    /\ pc = "R_sleep"
    /\ pc' = "R_loop"
    /\ UNCHANGED <<hist, task, cfg, blk, handle, op, phase, largs, llocals, launch_ret,
                   term_retry_cnt, env, outcome, rec, last_call, obs,
                   null_reason>>

(* ----------------------------- environment ----------------------------- *)
\* the time.sleep the thread is in at position p: the backoff sleep of
\* _launch, the wait before get_job_status, the fixed sleep of recover()
WaitAt(p) ==
    IF p = "L_sleep" THEN "backoff"
    ELSE IF p = "L_status" THEN "poll"
    ELSE IF p = "R_sleep" THEN "recover"
    ELSE "none"

\* The user requests cancellation: from now on signal_handler() raises.
Cancel ==
    /\ ~cancel_pending
    /\ phase # "FAILED"
    /\ cancel_pending' = TRUE
    /\ wait_cancel' = WaitAt(pc)
    /\ UNCHANGED <<last_backoff, unhealthy, task, cfg, blk, handle, pc, op, phase, largs, llocals, launch_ret,
                   term_retry_cnt, clock, job_start, outcome, rec, last_call,
                   obs, null_reason>>

Next ==
    \/ make
    \/ launch
    \/ SignalCheck
    \/ SkyLaunchOk
    \/ SkyLaunchFail
    \/ BackoffSleep
    \/ PollRefresh
    \/ GetJobStatus
    \/ PollExhausted
    \/ LaunchReturn
    \/ recover
    \/ terminate_cluster
    \/ Teardown
    \/ RecoverAfterLaunch
    \/ RecoverSleep
    \/ Cancel

Spec == Init /\ [][Next]_vars


(* =============================== claims ================================ *)

\* a step that issues one provisioning call (sky.launch)
ProvisioningStep == launch_calls' = launch_calls + 1
\* a step that issues one teardown call
TeardownStep == teardown_calls' = teardown_calls + 1
\* recover() has completed (returned or raised)
RecoverDone == pc = "idle" /\ op = "recover"

\* C1: in _launch every provisioning call is immediately preceded by a signal
\* check that did not raise; a check made while the signal is pending raises
\* out of the operation without a provisioning call, none is issued after
\* it, and a signal pending at entry means zero provisioning calls.
C1_SignalCheckBeforeProvisioning ==
    /\ [][ProvisioningStep => last_call = "signal" /\ ~signal_at_check]_vars
    /\ [][(pc = "L_top" /\ cancel_pending /\ retry_cnt' = retry_cnt + 1)
            => (outcome'.kind = "Cancelled" /\ pc' = "idle"
                /\ launch_calls' = launch_calls)]_vars
    /\ [][outcome.kind = "Cancelled" => launch_calls' = launch_calls]_vars
    /\ [](cancel_at_entry => launch_calls = 0)
\* witness: two provisioning calls were made, then a check raised
C1_Witness == outcome.kind = "Cancelled" /\ launch_calls >= 2

\* C2: _launch returns a timestamp only when the job status read in that
\* iteration is neither None nor INIT/PENDING (as the claim states it).
C2_TimestampOnlyWhenJobStarted ==
    launch_ret.kind = "ts"
        => (last_call = "timestamp_ok"
            /\ status \notin {"None", "INIT", "PENDING"})

\* C3 (as stated): in default mode _launch never returns None.
C3_NeverNullInDefaultMode ==
    raise_on_failure => launch_ret.kind # "null"
\* C3 (amended): in default mode a spent retry budget raises, never returns
\* None; None is returned in default mode only by the final `return
\* launch_time` after the polling loop used all MAX_JOB_CHECKING_RETRY
\* iterations with the cluster UP and the status still None.
C3_NullInDefaultModeOnlyAfterPolling ==
    /\ (raise_on_failure /\ launch_ret.kind = "null")
          => (null_reason = "poll"
              /\ job_checking_retry_cnt = MAX_JOB_CHECKING_RETRY
              /\ status = "None" /\ ~retry_launch
              /\ last_call = "status_none")
    /\ null_reason = "budget" => (~raise_on_failure /\ launch_ret.kind = "null")
    /\ (op = "launch" /\ pc = "idle")
          => outcome.kind \in {"ts", "null", "ResourcesUnavailableError",
                               "Cancelled"}
C3_Witness == raise_on_failure /\ launch_ret.kind = "null" /\ pc = "idle"

C5_RetryUntilUpNeverGivesUp ==
    /\ [](retry_until_up => outcome.kind # "ResourcesUnavailableError")
    /\ [](op = "launch" /\ retry_until_up => max_retry = NoLimit)
    /\ [][(op = "recover" /\ pc = "L_return" /\ launch_ret.kind = "null"
           /\ pc' # pc)
            => IF retry_until_up
                 THEN pc' = "R_sleep" /\ outcome' = outcome
                 ELSE outcome'.kind = "ResourcesUnavailableError"]_vars
    /\ [][(op = "launch" /\ ~retry_until_up /\ ProvisioningStep
           /\ last_call' # "launch_ok" /\ retry_cnt >= DEFAULT_MAX_RETRY)
            => outcome'.kind = "ResourcesUnavailableError"]_vars
C5_Witness ==
    retry_until_up /\ op = "recover" /\ pc = "L_provision" /\ rounds >= 2


\* C6: each blocklist set only grows from step to step, except at a failed
\* provisioning call with the total-exhaustion message, where both sets
\* become empty together.
C6_BlocklistMonotoneExceptExhaustion ==
    [][\/ /\ blocked_regions \subseteq blocked_regions'
          /\ blocked_zones \subseteq blocked_zones'
       \/ /\ pc = "L_provision"
          /\ ProvisioningStep
          /\ last_call' = "launch_exhausted"
          /\ blocked_regions' = {}
          /\ blocked_zones' = {}]_vars
\* witness: inside recover() (whose entry blocked a zone) an exhaustion
\* failure has just emptied the sets
C6_Witness ==
    /\ op = "recover" /\ pc # "idle"
    /\ last_call = "launch_exhausted"
    /\ cleared
    /\ blocked_zones = {} /\ blocked_regions = {}

\* C7: terminate_cluster with no registered handle returns without a teardown
\* call and without raising; teardown is only ever called on a handle, and a
\* successful teardown leaves no handle, so a second terminate_cluster right
\* after it issues no teardown.
C7_TerminateIdempotent ==
    /\ [][(pc = "R_loop" /\ handle = NoHandle /\ rounds' = rounds + 1)
            => (teardown_calls' = 0 /\ pc' = "L_top" /\ outcome' = outcome
                /\ handle' = NoHandle)]_vars
    /\ [][TeardownStep => handle # NoHandle]_vars
    /\ [][(TeardownStep /\ last_call' = "teardown_ok")
            => handle' = NoHandle]_vars
\* witness: a later round of recover() called terminate_cluster with the
\* handle gone since the earlier successful teardown
C7_Witness ==
    /\ op = "recover" /\ rounds >= 2
    /\ last_call = "get_handle" /\ teardown_calls = 0
    /\ handle = NoHandle /\ pc = "L_top"

\* C8: with a handle, terminate_cluster repeats teardown, returns at the first
\* success, and raises RuntimeError after exactly TERMINATE_MAX_RETRY failed
\* teardown calls; the error ends recover() and no provisioning follows.
C8_TerminateBoundedThenFatal ==
    /\ [](teardown_calls <= TERMINATE_MAX_RETRY)
    /\ [](outcome.kind = "RuntimeError"
            => (teardown_calls = TERMINATE_MAX_RETRY
                /\ term_retry_cnt = TERMINATE_MAX_RETRY
                /\ last_call = "teardown_fail"
                /\ RecoverDone))
    /\ [][(TeardownStep /\ last_call' = "teardown_ok") => pc' = "L_top"]_vars
    /\ [][(TeardownStep /\ last_call' = "teardown_fail")
            => IF teardown_calls + 1 < TERMINATE_MAX_RETRY
                 THEN pc' = "T_loop" /\ outcome' = outcome
                 ELSE outcome'.kind = "RuntimeError"]_vars
    /\ [][outcome.kind = "RuntimeError" => launch_calls' = launch_calls]_vars
C8_Witness ==
    outcome.kind = "RuntimeError" /\ teardown_calls = TERMINATE_MAX_RETRY

\* C9: every provisioning call recover() issues before an exhaustion clear is
\* passed a zone blocklist containing the zone the cluster ran in at entry,
\* and for CrossRegion under _CROSS_REGION a region blocklist containing its
\* region.
C9_PreemptedPlacementBlocked ==
    [][(op = "recover" /\ ProvisioningStep /\ ~cleared)
         => /\ recover_handle.zone \in blocked_zones
            /\ (variant = "CROSS_REGION" /\ cross_region_env)
                  => recover_handle.region \in blocked_regions]_vars
C9_Witness ==
    /\ op = "recover" /\ last_call = "launch_fail" /\ launch_calls >= 2
    /\ ~cleared
    /\ variant = "CROSS_REGION" /\ cross_region_env
    /\ recover_handle.zone \in blocked_zones
    /\ recover_handle.region \in blocked_regions

\* C10: a FailoverStrategyExecutor never blocks a region.
C10_FailoverBlocksOnlyZones ==
    variant = "FAILOVER" => blocked_regions = {}
\* witness: Failover blocked a second zone after _launch returned None with
\* a cluster registered, and is provisioning again
C10_Witness ==
    /\ variant = "FAILOVER" /\ op = "recover" /\ rounds >= 2
    /\ Cardinality(blocked_zones) >= 2
    /\ pc = "L_provision"


\* C11: make() constructs a strategy only when the task carries exactly one
\* resource spec whose declared recovery-policy name is registered: then the
\* instance is of the class registered under that name; otherwise make()
\* fails with an error and no instance exists.
C11_MakeOnlyOnValidTask ==
    /\ [][(phase = "UNMADE" /\ phase' # "UNMADE")
            => IF task_resources = 1 /\ spot_recovery \in SPOT_STRATEGIES
                 THEN /\ variant' = spot_recovery
                      /\ phase' = "UNSTARTED"
                      /\ outcome' = outcome
                 ELSE /\ variant' = "none"
                      /\ phase' = "FAILED"
                      /\ outcome'.kind \in {"AssertionError", "KeyError"}]_vars
    /\ [](variant = "none" => (op = "none" /\ pc = "idle"))
\* witness: make() was called with two resource specs and failed
C11_Witness ==
    /\ task_resources = 2 /\ phase = "FAILED"
    /\ outcome.kind = "AssertionError" /\ variant = "none"


\* a step that calls current_backoff() and then sleeps for its result
BackoffStep == backoff_calls' = backoff_calls + 1

\* C12 (as stated): the delay of a backoff sleep is never smaller than the
\* delay of the previous backoff sleep of the same executor instance.
C12_BackoffNeverRestarts ==
    [][BackoffStep => last_backoff' >= last_backoff]_vars
\* C12 (amended): the backoff state lives for one _launch invocation.  Within
\* an invocation the delay is the one of a Backoff object called once per
\* earlier iteration, so it never decreases; every invocation starts a fresh
\* Backoff, so its first backoff sleep uses the base interval again.
C12_BackoffRestartsPerLaunch ==
    /\ [][BackoffStep
            => /\ last_backoff' = CurrentBackoff(retry_cnt - 1)
               /\ retry_cnt > 1 => last_backoff' >= last_backoff
               /\ retry_cnt = 1 => last_backoff' = RETRY_INIT_GAP_SECONDS]_vars
    /\ [](pc = "L_top" /\ retry_cnt = 0 => backoff_calls = 0)
\* witness: a later _launch invocation holds a fresh Backoff although an
\* earlier invocation already slept longer than the base interval
C12_Witness ==
    /\ op = "recover" /\ pc = "L_provision" /\ retry_cnt = 1
    /\ backoff_calls = 0
    /\ last_backoff > RETRY_INIT_GAP_SECONDS


\* C13 (as stated): once the signal became pending during a wait, the
\* operation makes no further collaborator call (the raising signal check
\* apart) and ends with the cancellation error.
C13_CancelInterruptsWaits ==
    [][wait_cancel # "none"
         => /\ last_call' = last_call \/ last_call' = "signal"
            /\ (pc # "idle" /\ pc' = "idle")
                  => outcome'.kind = "Cancelled"]_vars
\* C13 (amended): the signal is only polled at the top of a _launch
\* iteration.  Pending since a backoff sleep, the next call is the signal
\* check, which raises.  Pending since any wait, no provisioning call is
\* issued any more; the status, timestamp, refresh and teardown calls that
\* precede the next signal check are still made.
C13_CancelSeenAtNextSignalCheck ==
    /\ [][wait_cancel = "backoff"
            => \/ last_call' = last_call /\ outcome' = outcome
               \/ last_call' = "signal" /\ outcome'.kind = "Cancelled"]_vars
    /\ [][wait_cancel # "none" => ~ProvisioningStep]_vars
    /\ [][(wait_cancel # "none" /\ pc = "L_top" /\ pc' # pc)
            => outcome'.kind = "Cancelled"]_vars
C13_Witness ==
    wait_cancel = "backoff" /\ outcome.kind = "Cancelled" /\ pc = "idle"


\* the step that leaves the polling loop by its condition
PollLoopEnds == pc = "L_poll" /\ ~PollCondition /\ pc' # pc

\* C14 (as stated): when the polling loop used all its iterations with the
\* status still unavailable, _launch does not return but goes on with its
\* outer loop.
C14_PollExhaustionRetriesProvisioning ==
    [][PollLoopEnds
         => (pc' \in {"L_top", "L_sleep"} /\ launch_ret' = launch_ret)]_vars
\* C14 (amended): in that case _launch returns None at once: no backoff, no
\* signal check, no further provisioning call, and nothing is raised.
C14_PollExhaustionReturnsNull ==
    /\ [][PollLoopEnds
            => /\ pc' = "L_return"
               /\ launch_ret' = NullResult
               /\ job_checking_retry_cnt = MAX_JOB_CHECKING_RETRY
               /\ status = "None" /\ ~retry_launch
               /\ UNCHANGED <<outcome, retry_cnt, backoff_calls, launch_calls,
                              last_call>>]_vars
    /\ [][(pc = "L_return" /\ null_reason = "poll") => ~ProvisioningStep]_vars
C14_Witness ==
    /\ pc = "L_return" /\ null_reason = "poll" /\ launch_ret.kind = "null"
    /\ last_call = "status_none"
    /\ job_checking_retry_cnt = MAX_JOB_CHECKING_RETRY


\* C15: with max_retry set, the attempt-count check bounds every _launch
\* invocation, the needs-relaunch path included: it never issues more than
\* max_retry provisioning calls, and an iteration that ends in "needs
\* relaunch" with retry_cnt >= max_retry does not start another one.
C15_BoundedProvisioningWithMaxRetry ==
    max_retry # NoLimit
        => /\ launch_calls <= max_retry[1]
           /\ (pc = "L_sleep" /\ retry_launch) => retry_cnt < max_retry[1]


\* a step in which sky.launch raised
FailedProvisioningStep == failed_calls' = failed_calls + 1
\* a step in which _launch gives up: returns None or raises
\* ResourcesUnavailableError
GiveUpStep ==
    /\ pc = "L_provision"
    /\ \/ pc' = "L_return" /\ launch_ret' = NullResult
       \/ pc' = "idle" /\ outcome'.kind = "ResourcesUnavailableError"

\* C16 (as stated): needs-relaunch iterations do not count toward max_retry:
\* _launch gives up exactly at the max_retry-th failed provisioning call and
\* backs off and retries after every earlier one.
C16_OnlyFailedProvisioningCounts ==
    [][(FailedProvisioningStep /\ max_retry # NoLimit)
         => IF failed_calls' = max_retry[1]
              THEN GiveUpStep
              ELSE pc' = "L_sleep" /\ BackoffStep]_vars
\* C16 (amended): retry_cnt counts every iteration, needs-relaunch ones
\* included.  _launch gives up at the first failed provisioning call made in
\* an iteration numbered max_retry or later (raising or returning None per
\* raise_on_failure), and backs off and retries after a failed call in an
\* earlier iteration.
C16_EveryIterationCounts ==
    /\ [][FailedProvisioningStep
            => IF max_retry # NoLimit /\ retry_cnt >= max_retry[1]
                 THEN /\ GiveUpStep
                      /\ raise_on_failure = (pc' = "idle")
                 ELSE /\ pc' = "L_sleep" /\ BackoffStep
                      /\ UNCHANGED <<outcome, launch_ret>>]_vars
    /\ [](failed_calls <= launch_calls /\ launch_calls <= retry_cnt)
    /\ [][retry_cnt' # retry_cnt
            => (retry_cnt' = 0 \/ (pc = "L_top" /\ retry_cnt' = retry_cnt + 1))]_vars
\* witness: _launch gave up at its second failed provisioning call, a
\* needs-relaunch iteration having used up one of the three attempts
C16_Witness ==
    /\ pc = "L_return" /\ null_reason = "budget"
    /\ failed_calls = 2 /\ retry_cnt = RECOVER_MAX_RETRY


\* a polling step in which refresh_cluster_status_handle, get_job_status or
\* get_job_timestamp raised
PollErrorStep ==
    /\ pc \in {"L_poll", "L_status"}
    /\ last_call' \in {"refresh_error", "status_error", "timestamp_error"}
\* a polling step in which the refresh reported a cluster that is not UP
PreemptionDetectedStep ==
    /\ pc = "L_poll"
    /\ last_call' = "refresh_not_up"
\* what _launch does on "needs relaunch": no result, no exception, a backoff
RelaunchEffect ==
    /\ pc' = "L_sleep"
    /\ retry_launch'
    /\ BackoffStep
    /\ UNCHANGED <<outcome, launch_ret, phase, op, blk, retry_cnt>>

\* C17: an error of the refresh, the job-status query or the job-timestamp
\* query during polling is not propagated; like a detected preemption it ends
\* polling without a timestamp, is followed by a backoff sleep, and the outer
\* loop goes on to a new signal check and provisioning attempt.
C17_PollErrorsTriggerRelaunch ==
    /\ [][PollErrorStep => RelaunchEffect]_vars
    /\ [][PreemptionDetectedStep => RelaunchEffect]_vars
    /\ [][(pc = "L_sleep" /\ pc' # pc)
            => (pc' = "L_top" /\ UNCHANGED <<outcome, launch_ret, retry_cnt>>)]_vars
    /\ [][(pc = "L_top" /\ pc' # pc)
            => /\ last_call' = "signal"
               /\ retry_cnt' = retry_cnt + 1
               /\ \/ pc' = "L_provision" /\ UNCHANGED outcome
                  \/ pc' = "idle" /\ signal_at_check']_vars
\* witness: get_job_timestamp raised and _launch is in its backoff sleep
C17_Witness ==
    /\ pc = "L_sleep" /\ last_call = "timestamp_error"
    /\ retry_launch /\ launch_ret = NoResult /\ outcome.kind = "none"


\* C18 (as stated): once the refresh inside _launch has reported a cluster
\* that is not UP, teardown is called before the next provisioning call.
C18_TeardownBeforeReprovisioning ==
    [][ProvisioningStep => ~unhealthy]_vars


\* the step from the caller into recover(): Step 1
RecoverEntryStep == pc = "idle" /\ pc' = "R_loop"
\* the step of recover() that looks at the result of _launch
RecoverResultStep == pc = "L_return" /\ op = "recover" /\ pc' # pc

\* C19 (as stated): with _CROSS_REGION unset a CrossRegion executor never
\* blocks a region.
C19_RegionsBlockedOnlyInForceMode ==
    (variant = "CROSS_REGION" /\ ~cross_region_env) => blocked_regions = {}
\* C19 (amended): the entry of CrossRegion.recover() adds the preempted
\* cluster's region exactly when _CROSS_REGION is set; independently of the
\* flag, the step after _launch returned None while a cluster handle exists
\* adds that handle's region and zone.  With the flag unset that step is the
\* only one that adds a region.
C19_RegionBlockedOnNullRegardlessOfMode ==
    /\ [][(RecoverEntryStep /\ variant = "CROSS_REGION")
            => /\ blocked_regions' = IF cross_region_env
                                       THEN blocked_regions \cup {handle.region}
                                       ELSE blocked_regions
               /\ blocked_zones' = blocked_zones \cup {handle.zone}]_vars
    /\ [][(RecoverResultStep /\ variant = "CROSS_REGION"
             /\ launch_ret = NullResult /\ handle # NoHandle)
            => /\ blocked_regions' = blocked_regions \cup {handle.region}
               /\ blocked_zones' = blocked_zones \cup {handle.zone}]_vars
    /\ [][(variant = "CROSS_REGION" /\ ~cross_region_env
             /\ ~(blocked_regions' \subseteq blocked_regions))
            => /\ RecoverResultStep
               /\ launch_ret = NullResult /\ handle # NoHandle]_vars
\* witness: flag unset, _launch returned None with a cluster registered, and
\* recover() has blocked that cluster's region and sleeps before the next round
C19_Witness ==
    /\ variant = "CROSS_REGION" /\ ~cross_region_env
    /\ pc = "R_sleep" /\ ~cleared
    /\ handle # NoHandle /\ handle.region \in blocked_regions
    /\ handle.zone \in blocked_zones


\* control is inside _launch
InLaunch == pc \in {"L_top", "L_provision", "L_sleep", "L_poll", "L_status"}

\* C20: _launch never adds to the blocklist: each of its steps leaves both
\* sets unchanged or clears both.  Hence until the first recover() call both
\* sets are empty, and every provisioning call of launch() is issued with an
\* empty blocklist.
C20_LaunchNeverBlocks ==
    /\ [][InLaunch => (UNCHANGED blk
                       \/ (blocked_regions' = {} /\ blocked_zones' = {}))]_vars
    /\ [][(pc = "idle" /\ InLaunch') => UNCHANGED blk]_vars
    /\ [](op \in {"none", "launch"}
            => (blocked_regions = {} /\ blocked_zones = {}))
    /\ [][(ProvisioningStep /\ op = "launch")
            => (blocked_regions = {} /\ blocked_zones = {})]_vars
\* witness: in launch(), a provisioning call failed while a cluster from an
\* earlier iteration is registered, and the blocklist is still empty
C20_Witness ==
    /\ op = "launch" /\ pc = "L_sleep"
    /\ last_call = "launch_fail" /\ launch_calls >= 2
    /\ handle # NoHandle
    /\ blocked_regions = {} /\ blocked_zones = {}

====
